---- MODULE Spec2Model ----
(***************************************************************************)
(* State-machine model of src/src/App.jsx: the App component (boundary     *)
(* fetch, name list, selection coordinator, map layers, timers) and the    *)
(* SidePanel component (tabs, chart fetches).                              *)
(*                                                                         *)
(* A name is a sequence of one-character strings; the empty sequence is    *)
(* the empty string (and a missing NAME).  A layer is the index of its     *)
(* feature in the boundary collection; 0 is the null reference.            *)
(* One action is one event-loop task: the handler, the re-render React     *)
(* performs for the state it set, and the effects of that render.          *)
(***************************************************************************)
EXTENDS Integers, Sequences, FiniteSets, Bags, TLC

VARIABLES
  geojson,              \* the content of NRT_Conservancies.geojson: the NAMEs
  boundaryFetch,        \* "pending", "ok" or "failed"
  conservancyData,      \* [isNull, features]
  conservancyList,      \* the dropdown's options
  selectedConservancy,  \* the selected name, <<>> when none
  mapReady,
  mapRef,               \* TRUE when mapRef.current holds the map
  selectedLayerRef,     \* the back-reference, 0 when null
  layerMapRef,          \* function: key -> layer
  style,                \* style[l]: "default" or "highlight"; <<>> before the layers exist
  debounce,             \* the name the pending debounce timer was set for, <<>> when none
  sizeTimers,           \* pending invalidateSize timers, each with the name it was set for
  activeTabId,
  figure,
  loading,
  error,
  inflight,             \* bag of chart requests without a response yet
  fitted,               \* the layer the last step called fitBounds for, 0 when none
  lastOp                \* the last step taken: [op, arg]

vars == <<geojson, boundaryFetch, conservancyData, conservancyList,
          selectedConservancy, mapReady, mapRef, selectedLayerRef, layerMapRef,
          style, debounce, sizeTimers, activeTabId, figure, loading, error,
          inflight, fitted, lastOp>>

mapVars == <<mapReady, mapRef>>
dataVars == <<geojson, boundaryFetch, conservancyData, conservancyList, layerMapRef>>
panelVars == <<activeTabId, figure, loading, error, inflight>>

\* Bounds of the model.
MaxFeatures == 2
MaxInflight == 2
MaxTimers == 2

\* The NAMEs a feature of the boundary file may carry.
NameChoices == { <<>>, <<"a", " ", "b">>, <<"A", " ", " ", "b", " ">> }

Collections == UNION { [1..n -> NameChoices] : n \in 0..MaxFeatures }

Range(s) == { s[i] : i \in DOMAIN s }

----------------------------------------------------------------------------
\* TAB_CONFIG and the chart resource path

TAB_CONFIG ==
  << [id |-> "fc",   label |-> "Fractional Cover", suffix |-> "_GroundCover"],
     [id |-> "ndvi", label |-> "NDVI",             suffix |-> "_NDVI"],
     [id |-> "rain", label |-> "Rainfall",         suffix |-> "_Rainfall"] >>

TabIds == { TAB_CONFIG[i].id : i \in DOMAIN TAB_CONFIG }

\* Mutant of currentTab: the first tab whatever the active one is
currentTab_first(tabId) == TAB_CONFIG[1]

\* TAB_CONFIG.find(t => t.id === tabId)
currentTab(tabId) ==
  TAB_CONFIG[CHOOSE i \in DOMAIN TAB_CONFIG :
               /\ TAB_CONFIG[i].id = tabId
               /\ \A j \in DOMAIN TAB_CONFIG : TAB_CONFIG[j].id = tabId => i <= j]

\* figs/<name>/<name><suffix>.json
fileName(name, tabId) ==
  [dir |-> name, file |-> name, suffix |-> currentTab(tabId).suffix]

NoFigure == [dir |-> <<>>, file |-> <<>>, suffix |-> ""]

----------------------------------------------------------------------------
\* normalizeName: trim, lower-case, collapse runs of whitespace

IsSpace(c) == c = " "

toLowerCase(c) ==
  CASE c = "A" -> "a"
    [] c = "B" -> "b"
    [] c = "C" -> "c"
    [] OTHER   -> c

RECURSIVE trimStart(_)
trimStart(s) ==
  IF s # <<>> /\ IsSpace(Head(s)) THEN trimStart(Tail(s)) ELSE s

RECURSIVE trimEnd(_)
trimEnd(s) ==
  IF s # <<>> /\ IsSpace(s[Len(s)]) THEN trimEnd(SubSeq(s, 1, Len(s) - 1)) ELSE s

trim(s) == trimEnd(trimStart(s))

\* replace(/\s+/g, " ")
RECURSIVE collapseSpaces(_)
collapseSpaces(s) ==
  IF s = <<>> THEN <<>>
  ELSE IF IsSpace(Head(s))
       THEN <<" ">> \o collapseSpaces(trimStart(s))
       ELSE <<Head(s)>> \o collapseSpaces(Tail(s))

normalizeName(s) ==
  collapseSpaces([i \in DOMAIN trim(s) |-> toLowerCase(trim(s)[i])])

----------------------------------------------------------------------------
\* The name list: filter(Boolean), first occurrences, sort by localeCompare

\* The collation weight of a character: white space before letters, a letter
\* and its capital alike.
PrimaryWeight(c) ==
  CASE c = " " -> 0
    [] c \in {"a", "A"} -> 1
    [] c \in {"b", "B"} -> 2
    [] c \in {"c", "C"} -> 3
    [] OTHER -> 4

IsUpper(c) == c \in {"A", "B", "C"}

RECURSIVE SeqLess(_, _)
SeqLess(x, y) ==
  IF y = <<>> THEN FALSE
  ELSE IF x = <<>> THEN TRUE
  ELSE IF Head(x) # Head(y) THEN Head(x) < Head(y)
  ELSE SeqLess(Tail(x), Tail(y))

\* Mutant of localeLess: the order of the code units, as sort() without a
\* comparator gives it
localeLess_codeUnit(a, b) ==
  LET unit(c) == CASE c = " " -> 32
                   [] c = "A" -> 65 [] c = "B" -> 66 [] c = "C" -> 67
                   [] c = "a" -> 97 [] c = "b" -> 98 [] c = "c" -> 99
                   [] OTHER -> 100
  IN  SeqLess([i \in DOMAIN a |-> unit(a[i])], [i \in DOMAIN b |-> unit(b[i])])

\* a.localeCompare(b) < 0: by letters first, then lower case before capitals
localeLess(a, b) ==
  LET pa == [i \in DOMAIN a |-> PrimaryWeight(a[i])]
      pb == [i \in DOMAIN b |-> PrimaryWeight(b[i])]
      ca == [i \in DOMAIN a |-> IF IsUpper(a[i]) THEN 1 ELSE 0]
      cb == [i \in DOMAIN b |-> IF IsUpper(b[i]) THEN 1 ELSE 0]
  IN  IF pa # pb THEN SeqLess(pa, pb) ELSE SeqLess(ca, cb)

RECURSIVE insertSorted(_, _)
insertSorted(sorted, v) ==
  IF sorted = <<>> THEN <<v>>
  ELSE IF localeLess(v, Head(sorted)) THEN <<v>> \o sorted
  ELSE <<Head(sorted)>> \o insertSorted(Tail(sorted), v)

RECURSIVE sortNames(_)
sortNames(s) ==
  IF s = <<>> THEN <<>> ELSE insertSorted(sortNames(SubSeq(s, 1, Len(s) - 1)), s[Len(s)])

\* .filter(Boolean).filter((v, i, a) => a.indexOf(v) === i)
RECURSIVE uniqueNames(_)
uniqueNames(s) ==
  IF s = <<>> THEN <<>>
  ELSE LET front == uniqueNames(SubSeq(s, 1, Len(s) - 1))
           v == s[Len(s)]
       IN  IF v = <<>> \/ v \in Range(front) THEN front ELSE Append(front, v)

namesOf(data) ==
  IF data.isNull THEN <<>> ELSE sortNames(uniqueNames(data.features))

----------------------------------------------------------------------------
\* The name -> layer association

MapGet(m, k) == IF k \in DOMAIN m THEN m[k] ELSE 0

MapSet(m, k, v) == [x \in DOMAIN m \cup {k} |-> IF x = k THEN v ELSE m[x]]

EmptyMap == [x \in {} |-> 0]

\* onEachFeature registers the layer under its NAME and under the normalized NAME
onEachFeature(m, name, layer) ==
  IF name # <<>>
  THEN MapSet(MapSet(m, name, layer), normalizeName(name), layer)
  ELSE m

RECURSIVE registerLayers(_, _)
registerLayers(features, n) ==
  IF n = 0 THEN EmptyMap
  ELSE onEachFeature(registerLayers(features, n - 1), features[n], n)

\* The GeoJSON element exists once the map exists and the collection is there.
layersOf(data, ready) ==
  IF ready /\ ~data.isNull THEN registerLayers(data.features, Len(data.features))
  ELSE EmptyMap

\* The layers start with conservancyStyle; afterwards a style changes only by
\* the setStyle calls of selectConservancyByName and onClose.
stylesOf(data, ready, old) ==
  IF ready /\ ~data.isNull
  THEN IF Len(old) = Len(data.features) /\ Len(old) > 0 THEN old
       ELSE [i \in 1..Len(data.features) |-> "default"]
  ELSE <<>>

Layers == DOMAIN style

Highlighted == { l \in Layers : style[l] = "highlight" }

----------------------------------------------------------------------------
\* selectConservancyByName(name, updateState): the values it leaves behind

lookupLayer(name) ==
  LET layer == MapGet(layerMapRef, name)
  IN  IF layer = 0 THEN MapGet(layerMapRef, normalizeName(name)) ELSE layer

\* Mutant of revertPrevious: the previous layer keeps its style
revertPrevious_skipped == style

revertPrevious ==
  IF selectedLayerRef # 0
  THEN [style EXCEPT ![selectedLayerRef] = "default"]
  ELSE style

selectConservancyByName(name, updateState) ==
  LET sel == IF updateState THEN name ELSE selectedConservancy
      same == [selected |-> sel, ref |-> selectedLayerRef, style |-> style,
               fit |-> 0, timers |-> sizeTimers]
      layer == lookupLayer(name)
  IN  IF ~mapRef THEN same
      ELSE IF name = <<>>
           THEN [same EXCEPT !.ref = 0, !.style = revertPrevious]
           ELSE IF layer # 0
                THEN [selected |-> sel, ref |-> layer,
                      style |-> [revertPrevious EXCEPT ![layer] = "highlight"],
                      fit |-> layer, timers |-> Append(sizeTimers, name)]
                ELSE [same EXCEPT !.ref = 0, !.style = revertPrevious]

\* Mutant of handleSelectConservancy: only the state is set, the map is left
\* to the debounce timer
handleSelectConservancy_stateOnly(name) ==
  [selected |-> name, ref |-> selectedLayerRef, style |-> style,
   fit |-> 0, timers |-> sizeTimers]

\* Mutant of handleSelectConservancy: choosing the selected name clears it
handleSelectConservancy_toggle(name) ==
  LET n == IF name = selectedConservancy THEN <<>> ELSE name
  IN  IF mapReady /\ mapRef
      THEN [selectConservancyByName(n, FALSE) EXCEPT !.selected = n]
      ELSE [selected |-> n, ref |-> selectedLayerRef, style |-> style,
            fit |-> 0, timers |-> sizeTimers]

\* handleSelectConservancy(e)
handleSelectConservancy(name) ==
  IF mapReady /\ mapRef
  THEN [selectConservancyByName(name, FALSE) EXCEPT !.selected = name]
  ELSE [selected |-> name, ref |-> selectedLayerRef, style |-> style,
        fit |-> 0, timers |-> sizeTimers]

\* Mutant of onClose: the name is cleared, the layer is left as it is
onClose_keepsHighlight ==
  [selected |-> <<>>, ref |-> selectedLayerRef, style |-> style,
   fit |-> 0, timers |-> sizeTimers]

\* Mutant of onClose: the viewport is fitted to the layer once more
onClose_fitsPrevious ==
  [selected |-> <<>>,
   ref |-> 0,
   style |-> IF selectedLayerRef # 0
             THEN [style EXCEPT ![selectedLayerRef] = "default"]
             ELSE style,
   fit |-> selectedLayerRef,
   timers |-> sizeTimers]

\* onClose: the values the panel's close handler leaves behind
onClose ==
  [selected |-> <<>>,
   ref |-> 0,
   style |-> IF selectedLayerRef # 0
             THEN [style EXCEPT ![selectedLayerRef] = "default"]
             ELSE style,
   fit |-> 0,
   timers |-> sizeTimers]

----------------------------------------------------------------------------
\* Mutant of debounceEffect: mapReady is missing from the dependency list
debounceEffect_noReadyDep(pending, newSel, newReady, newData) ==
  IF newSel = selectedConservancy /\ newData = conservancyData
  THEN pending
  ELSE IF ~newReady \/ newSel = <<>> THEN <<>> ELSE newSel

\* The debounce effect, deps [selectedConservancy, mapReady, conservancyData]:
\* the timer left pending after a render, given the one pending before it

\* Mutant of debounceEffect: no clearTimeout in the cleanup
debounceEffect_noCleanup(pending, newSel, newReady, newData) ==
  IF ~newReady \/ newSel = <<>> THEN pending ELSE newSel

debounceEffect(pending, newSel, newReady, newData) ==
  IF newSel = selectedConservancy /\ newReady = mapReady /\ newData = conservancyData
  THEN pending
  ELSE IF ~newReady \/ newSel = <<>> THEN <<>> ELSE newSel

----------------------------------------------------------------------------
\* The side panel: mounted while a name is selected

Request(name, tabId) == [url |-> fileName(name, tabId)]

\* The requests of a panel that unmounts: React drops the state updates of an
\* unmounted component, so their responses set nothing and they leave the model.
orphaned(bag) == EmptyBag

\* The body of the panel's effect, deps [conservancyName, activeTabId]
chartEffect(name, tabId) ==
  [tab |-> tabId, figure |-> NoFigure, loading |-> TRUE, error |-> FALSE,
   inflight |-> inflight (+) SetToBag({Request(name, tabId)})]

\* Mutant of sidePanel: the panel is keyed by the region, so a change of
\* region mounts a new panel on the first tab
sidePanel_remountOnRegion(newSel, newTab) ==
  LET same == [tab |-> activeTabId, figure |-> figure, loading |-> loading,
               error |-> error, inflight |-> inflight]
  IN  IF newSel = <<>>
      THEN IF selectedConservancy = <<>> THEN same
           ELSE [tab |-> TAB_CONFIG[1].id, figure |-> NoFigure, loading |-> FALSE,
                 error |-> FALSE, inflight |-> orphaned(inflight)]
      ELSE IF newSel # selectedConservancy
           THEN chartEffect(newSel, TAB_CONFIG[1].id)
           ELSE IF newTab # activeTabId
                THEN chartEffect(newSel, newTab)
                ELSE same

\* Mutant of sidePanel: the effect has no dependency list
sidePanel_noDeps(newSel, newTab) ==
  IF newSel = <<>>
  THEN [tab |-> TAB_CONFIG[1].id, figure |-> NoFigure, loading |-> FALSE,
        error |-> FALSE, inflight |-> EmptyBag]
  ELSE IF selectedConservancy = <<>>
       THEN chartEffect(newSel, TAB_CONFIG[1].id)
       ELSE chartEffect(newSel, newTab)

\* The panel after a render with conservancyName = newSel and the tab newTab
sidePanel(newSel, newTab) ==
  LET same == [tab |-> activeTabId, figure |-> figure, loading |-> loading,
               error |-> error, inflight |-> inflight]
  IN  IF newSel = <<>>
      THEN IF selectedConservancy = <<>> THEN same
           ELSE [tab |-> TAB_CONFIG[1].id, figure |-> NoFigure, loading |-> FALSE,
                 error |-> FALSE, inflight |-> orphaned(inflight)]
      ELSE IF selectedConservancy = <<>>
           THEN chartEffect(newSel, TAB_CONFIG[1].id)
           ELSE IF newSel # selectedConservancy \/ newTab # activeTabId
                THEN chartEffect(newSel, newTab)
                ELSE same

----------------------------------------------------------------------------
\* The state after construction and the first render

Constructed ==
  /\ boundaryFetch = "pending"
  /\ conservancyData = [isNull |-> TRUE, features |-> <<>>]
  /\ conservancyList = <<>>
  /\ selectedConservancy = <<>>
  /\ mapReady = FALSE
  /\ mapRef = FALSE
  /\ selectedLayerRef = 0
  /\ layerMapRef = EmptyMap
  /\ style = <<>>
  /\ debounce = <<>>
  /\ sizeTimers = <<>>
  /\ activeTabId = TAB_CONFIG[1].id
  /\ figure = NoFigure
  /\ loading = FALSE
  /\ error = FALSE
  /\ inflight = EmptyBag
  /\ fitted = 0
  /\ lastOp = [op |-> "init", arg |-> <<>>]

Init == geojson \in Collections /\ Constructed

\* A step of the selection coordinator that leaves r behind, and the render
\* after it; pending is the debounce timer not yet fired
Coordinate(r, pending) ==
  LET p == sidePanel(r.selected, activeTabId)
  IN  /\ Len(r.timers) <= MaxTimers
      /\ BagCardinality(p.inflight) <= MaxInflight
      /\ selectedConservancy' = r.selected
      /\ selectedLayerRef' = r.ref
      /\ style' = r.style
      /\ fitted' = r.fit
      /\ sizeTimers' = r.timers
      /\ debounce' = debounceEffect(pending, r.selected, mapReady, conservancyData)
      /\ activeTabId' = p.tab
      /\ figure' = p.figure
      /\ loading' = p.loading
      /\ error' = p.error
      /\ inflight' = p.inflight

\* The boundary fetch succeeds: setConservancyData(data)
BoundaryLoaded ==
  /\ boundaryFetch = "pending"
  /\ boundaryFetch' = "ok"
  /\ conservancyData' = [isNull |-> FALSE, features |-> geojson]
  /\ conservancyList' = namesOf(conservancyData')
  /\ layerMapRef' = layersOf(conservancyData', mapRef)
  /\ style' = stylesOf(conservancyData', mapRef, style)
  /\ debounce' = debounceEffect(debounce, selectedConservancy, mapReady, conservancyData')
  /\ fitted' = 0
  /\ lastOp' = [op |-> "boundaryLoaded", arg |-> <<>>]
  /\ UNCHANGED <<geojson, selectedConservancy, mapVars, selectedLayerRef, sizeTimers, panelVars>>

\* Mutant of BoundaryFailed: the failed fetch is issued again
BoundaryFailed_retry ==
  /\ boundaryFetch = "pending"
  /\ boundaryFetch' = "pending"
  /\ fitted' = 0
  /\ lastOp' = [op |-> "boundaryFailed", arg |-> <<>>]
  /\ UNCHANGED <<geojson, conservancyData, conservancyList, layerMapRef, style, debounce,
                 selectedConservancy, mapVars, selectedLayerRef, sizeTimers, panelVars>>

\* The boundary fetch fails: logged, nothing set
BoundaryFailed ==
  /\ boundaryFetch = "pending"
  /\ boundaryFetch' = "failed"
  /\ fitted' = 0
  /\ lastOp' = [op |-> "boundaryFailed", arg |-> <<>>]
  /\ UNCHANGED <<geojson, conservancyData, conservancyList, layerMapRef, style, debounce,
                 selectedConservancy, mapVars, selectedLayerRef, sizeTimers, panelVars>>

\* whenCreated
MapCreated ==
  /\ ~mapRef
  /\ mapRef' = TRUE
  /\ mapReady' = TRUE
  /\ layerMapRef' = layersOf(conservancyData, TRUE)
  /\ style' = stylesOf(conservancyData, TRUE, style)
  /\ debounce' = debounceEffect(debounce, selectedConservancy, TRUE, conservancyData)
  /\ fitted' = 0
  /\ lastOp' = [op |-> "mapCreated", arg |-> <<>>]
  /\ UNCHANGED <<geojson, boundaryFetch, conservancyData, conservancyList,
                 selectedConservancy, selectedLayerRef, sizeTimers, panelVars>>

\* A click on the layer l
ClickLayer(l) ==
  /\ l \in Layers
  /\ Coordinate(selectConservancyByName(conservancyData.features[l], TRUE), debounce)
  /\ lastOp' = [op |-> "click", arg |-> conservancyData.features[l]]
  /\ UNCHANGED <<dataVars, mapVars>>

\* A choice in the dropdown: an option of the list, or the blank one
Dropdown(name) ==
  /\ name \in Range(conservancyList) \cup {<<>>}
  /\ Coordinate(handleSelectConservancy(name), debounce)
  /\ lastOp' = [op |-> "dropdown", arg |-> name]
  /\ UNCHANGED <<dataVars, mapVars>>

\* The panel's close button
ClosePanel ==
  /\ selectedConservancy # <<>>
  /\ Coordinate(onClose, debounce)
  /\ lastOp' = [op |-> "close", arg |-> <<>>]
  /\ UNCHANGED <<dataVars, mapVars>>

\* The debounce timer fires
DebounceFire ==
  /\ debounce # <<>>
  /\ Coordinate(selectConservancyByName(debounce, FALSE), <<>>)
  /\ lastOp' = [op |-> "debounce", arg |-> debounce]
  /\ UNCHANGED <<dataVars, mapVars>>

\* The oldest invalidateSize timer fires
SizeTimerFire ==
  /\ sizeTimers # <<>>
  /\ sizeTimers' = Tail(sizeTimers)
  /\ fitted' = 0
  /\ lastOp' = [op |-> "invalidateSize", arg |-> Head(sizeTimers)]
  /\ UNCHANGED <<dataVars, mapVars, selectedConservancy, selectedLayerRef, style,
                 debounce, panelVars>>

\* A click on a tab button
TabClick(t) ==
  /\ selectedConservancy # <<>>
  /\ t \in TabIds
  /\ LET p == sidePanel(selectedConservancy, t)
     IN  /\ BagCardinality(p.inflight) <= MaxInflight
         /\ activeTabId' = p.tab
         /\ figure' = p.figure
         /\ loading' = p.loading
         /\ error' = p.error
         /\ inflight' = p.inflight
  /\ fitted' = 0
  /\ lastOp' = [op |-> "tab", arg |-> <<t>>]
  /\ UNCHANGED <<dataVars, mapVars, selectedConservancy, selectedLayerRef, style,
                 debounce, sizeTimers>>

\* Mutant of chartLoaded: a response is applied only to the request the panel shows
chartLoaded_guarded(q) ==
  IF q.url = fileName(selectedConservancy, activeTabId)
  THEN [figure |-> q.url, loading |-> FALSE, error |-> error]
  ELSE [figure |-> figure, loading |-> loading, error |-> error]

\* .then(data => ...): the response to q parses
chartLoaded(q) ==
  [figure |-> q.url, loading |-> FALSE, error |-> error]

\* .catch(err => ...): the response to q is not ok, or does not parse
chartFailed(q) ==
  [figure |-> figure, loading |-> FALSE, error |-> TRUE]

ChartResponse(q, ok) ==
  /\ BagIn(q, inflight)
  /\ inflight' = inflight (-) SetToBag({q})
  /\ LET r == IF ok THEN chartLoaded(q) ELSE chartFailed(q)
     IN  /\ figure' = r.figure
         /\ loading' = r.loading
         /\ error' = r.error
  /\ fitted' = 0
  /\ lastOp' = [op |-> IF ok THEN "chartOk" ELSE "chartError", arg |-> <<>>]
  /\ UNCHANGED <<dataVars, mapVars, selectedConservancy, selectedLayerRef, style,
                 debounce, sizeTimers, activeTabId>>

ChartOk == \E q \in DOMAIN inflight : ChartResponse(q, TRUE)

ChartError == \E q \in DOMAIN inflight : ChartResponse(q, FALSE)

Next ==
  \/ BoundaryLoaded
  \/ BoundaryFailed
  \/ MapCreated
  \/ \E l \in Layers : ClickLayer(l)
  \/ \E name \in NameChoices : Dropdown(name)
  \/ ClosePanel
  \/ DebounceFire
  \/ SizeTimerFire
  \/ \E t \in TabIds : TabClick(t)
  \/ ChartOk
  \/ ChartError

Spec == Init /\ [][Next]_vars

----------------------------------------------------------------------------
\* The boundary loader and the name list on their own, over more names

MaxListFeatures == 3

ListNames == { <<>>, <<"a">>, <<"A">>, <<"a", "b">>, <<"B">>, <<"C">> }

ListCollections == UNION { [1..n -> ListNames] : n \in 0..MaxListFeatures }

InitNames == geojson \in ListCollections /\ Constructed

NextNames ==
  \/ BoundaryLoaded
  \/ BoundaryFailed
  \/ MapCreated

SpecNames == InitNames /\ [][NextNames]_vars

\* A timer that was set and not cleared fires.
SpecTimers == Spec /\ WF_vars(DebounceFire)

----------------------------------------------------------------------------
\* Properties

Shown == fileName(selectedConservancy, activeTabId)

PanelOpen == selectedConservancy # <<>>

LayersOfName(name) == { l \in Layers : conservancyData.features[l] = name }

\* A request left the bag in this step, and it was u
Answered(u) == inflight = inflight' (+) SetToBag({[url |-> u]})

\* No request was added to the bag in this step
NoFetchIssued == inflight' \sqsubseteq inflight

\* C1: in every reachable state at most one layer carries the highlight style.
C1_AtMostOneHighlight == Cardinality(Highlighted) <= 1

\* C1 witness: one layer is highlighted after the highlight moved there from
\* another layer (whose invalidateSize timer is still pending).
C1_Witness ==
  /\ Cardinality(Highlighted) = 1
  /\ lastOp.op \in {"click", "dropdown"}
  /\ \E i \in DOMAIN sizeTimers : lookupLayer(sizeTimers[i]) \notin Highlighted \cup {0}

\* C2 (as claimed): with the map ready and the layers there, a click on the
\* layer of R and the choice of R in the dropdown end, once no debounce timer
\* is pending, with R selected, the panel open and the layer of R, and no
\* other, highlighted.
C2_ClickAndDropdownEndAlike ==
  ( /\ mapRef
    /\ lastOp.op \in {"click", "dropdown", "debounce"}
    /\ lastOp.arg # <<>>
    /\ LayersOfName(lastOp.arg) # {}
    /\ debounce = <<>> )
  => /\ selectedConservancy = lastOp.arg
     /\ PanelOpen
     /\ Highlighted # {}
     /\ Highlighted \subseteq LayersOfName(lastOp.arg)

\* C3: a chart response is applied to the panel whatever the panel asked for
\* last (a parsed one becomes the figure, a failed one sets the error, both
\* end loading), and a change of region or tab leaves the earlier requests in
\* flight.
C3_ResponsesNeverGuarded ==
  [][ /\ lastOp'.op = "chartOk" /\ inflight' # inflight
         => /\ figure' # NoFigure
            /\ Answered(figure')
            /\ ~loading'
      /\ lastOp'.op = "chartError" /\ inflight' # inflight
         => error' /\ ~loading' /\ figure' = figure
      /\ PanelOpen /\ PanelOpen' /\ lastOp'.op \in {"click", "dropdown", "tab", "debounce"}
         => inflight \sqsubseteq inflight' ]_vars

\* C3 witness: the open panel renders a figure that was fetched for another
\* (region, tab) than the one it shows.
C3_Witness ==
  /\ PanelOpen
  /\ figure # NoFigure
  /\ ~loading
  /\ figure # Shown
  /\ lastOp.op = "chartOk"

\* C4 (as claimed): when the fetch of what the panel shows fails, the panel
\* shows the error and renders no chart, whatever the order of the responses.
C4_ErrorShowsNoChart ==
  [][ lastOp'.op = "chartError" /\ inflight' # inflight /\ Answered(Shown)
      => /\ error'
         /\ ~loading'
         /\ ~(figure' # NoFigure /\ ~loading') ]_vars

\* C5: closing the panel clears the selected name, leaves no layer
\* highlighted, drops the back-reference and the debounce timer and issues no
\* fetch; and while no name is selected no fetch is issued and no layer
\* becomes highlighted.
C5_CloseClears ==
  [][ /\ lastOp'.op = "close"
         => /\ selectedConservancy' = <<>>
            /\ Highlighted' = {}
            /\ selectedLayerRef' = 0
            /\ debounce' = <<>>
            /\ NoFetchIssued
      /\ selectedConservancy = <<>> /\ selectedConservancy' = <<>>
         => /\ NoFetchIssued
            /\ debounce' = <<>>
            /\ Highlighted' \subseteq Highlighted ]_vars

\* C5 witness: the panel was just closed on a selection whose layer had been
\* highlighted (its invalidateSize timer is still pending).
C5_Witness ==
  /\ lastOp.op = "close"
  /\ sizeTimers # <<>>
  /\ Highlighted = {}
  /\ Layers # {}

\* The suffix of the resource of each tab, as the interface states it
SuffixOfTab(t) ==
  CASE t = "fc"   -> "_GroundCover"
    [] t = "ndvi" -> "_NDVI"
    [] t = "rain" -> "_Rainfall"

\* C6: with the panel open, a click that changes the active tab issues exactly
\* one fetch, for figs/<region>/<region><suffix of the new tab>.json, and the
\* panel holds no figure until the response, also for a tab shown before.
C6_OneFetchPerTabSwitch ==
  [][ lastOp'.op = "tab" /\ activeTabId' # activeTabId
      => /\ inflight' = inflight (+) SetToBag({[url |->
                 [dir |-> selectedConservancy, file |-> selectedConservancy,
                  suffix |-> SuffixOfTab(activeTabId')]]})
         /\ figure' = NoFigure
         /\ loading'
         /\ selectedConservancy' = selectedConservancy ]_vars

\* C6 witness: back on the first tab, the panel is loading again while a
\* request of the same region for another tab is still in flight.
C6_Witness ==
  /\ lastOp = [op |-> "tab", arg |-> <<TAB_CONFIG[1].id>>]
  /\ activeTabId = TAB_CONFIG[1].id
  /\ loading
  /\ BagIn([url |-> Shown], inflight)
  /\ \E q \in DOMAIN inflight :
        q.url.dir = selectedConservancy /\ q.url.suffix # TAB_CONFIG[1].suffix

\* C7: choosing in the dropdown the region that the dropdown chose in the step
\* before changes neither the selected name, the highlighted layers, the
\* back-reference, nor the panel (open, tab, figure, loading, error).
C7_DropdownIdempotent ==
  [][ lastOp.op = "dropdown" /\ lastOp.arg # <<>> /\ lastOp' = lastOp
      => /\ selectedConservancy' = selectedConservancy
         /\ Highlighted' = Highlighted
         /\ selectedLayerRef' = selectedLayerRef
         /\ PanelOpen' = PanelOpen
         /\ activeTabId' = activeTabId
         /\ figure' = figure
         /\ loading' = loading
         /\ error' = error ]_vars

\* C7 witness: the dropdown chose the selected region twice with the map
\* ready: both choices highlighted its layer and set an invalidateSize timer.
C7_Witness ==
  /\ lastOp.op = "dropdown"
  /\ lastOp.arg # <<>>
  /\ selectedConservancy = lastOp.arg
  /\ Highlighted # {}
  /\ sizeTimers = <<lastOp.arg, lastOp.arg>>

\* C8 (as claimed): a timer that fires, debounce or invalidateSize, was set
\* for the name that is selected when it fires.
C8_NoTimerOfSupersededSelection ==
  [][ lastOp'.op \in {"debounce", "invalidateSize"} /\ lastOp' # lastOp
      => lastOp'.arg = selectedConservancy ]_vars

\* C8 (amended): the debounce timer is cancelled or set again with every
\* change of the selection, so a pending one is for the selected name and one
\* that fires was set for the name selected then; an invalidateSize timer is
\* never cancelled: the pending ones only leave by firing, oldest first.
C8_DebounceFollowsSelection ==
  [][ /\ debounce' # <<>> => debounce' = selectedConservancy' /\ mapReady'
      /\ lastOp'.op = "debounce" /\ lastOp' # lastOp
         => lastOp'.arg = selectedConservancy /\ debounce = lastOp'.arg
      /\ \/ sizeTimers' = sizeTimers
         \/ /\ sizeTimers # <<>>
            /\ sizeTimers' = Tail(sizeTimers)
            /\ lastOp'.op = "invalidateSize"
         \/ \E n \in NameChoices : sizeTimers' = Append(sizeTimers, n) ]_vars

\* C8 witness: an invalidateSize timer set for a superseded selection has just
\* fired while the debounce timer of the new selection is pending.
C8_Witness ==
  /\ lastOp.op = "invalidateSize"
  /\ lastOp.arg # selectedConservancy
  /\ debounce # <<>>
  /\ debounce = selectedConservancy

\* C9 (as claimed): after a failed fetch, choosing the selected region again
\* or clicking the active tab again issues a new fetch.
C9_RetryBySameChoice ==
  [][ /\ error /\ ~loading
      /\ lastOp' # lastOp
      /\ \/ lastOp' = [op |-> "tab", arg |-> <<activeTabId>>]
         \/ lastOp' = [op |-> "dropdown", arg |-> selectedConservancy]
      => ~NoFetchIssued ]_vars

\* C9 (amended): a fetch is issued only by a click on a layer, a choice in the
\* dropdown or a click on a tab that changes the selected region or the
\* active tab (or opens the panel); choosing the selected region again or
\* clicking the active tab again issues none, and no other step issues one.
C9_FetchOnlyOnChange ==
  [][ ~NoFetchIssued
      => /\ lastOp'.op \in {"click", "dropdown", "tab"}
         /\ selectedConservancy' # <<>>
         /\ selectedConservancy' # selectedConservancy \/ activeTabId' # activeTabId
         /\ inflight' = inflight (+) SetToBag({[url |-> Shown']}) ]_vars

\* C9 witness: the panel shows an error and the active tab was clicked again:
\* nothing is in flight.
C9_Witness ==
  /\ error
  /\ ~loading
  /\ lastOp = [op |-> "tab", arg |-> <<activeTabId>>]
  /\ inflight = EmptyBag

PairwiseDistinct(features) ==
  \A i, j \in DOMAIN features : features[i] = features[j] => i = j

\* C10 (as claimed): when the regions' names are pairwise distinct, choosing
\* the name N of a region highlights the layer of that region and no other.
C10_ExactNameWins ==
  ( /\ mapRef
    /\ lastOp.op = "dropdown"
    /\ lastOp.arg # <<>>
    /\ PairwiseDistinct(conservancyData.features) )
  => Highlighted = LayersOfName(lastOp.arg)

\* The names of ListNames as a locale-aware comparison orders them
CollationOrder == << <<"a">>, <<"A">>, <<"a", "b">>, <<"B">>, <<"C">> >>

ExpectedList(features) ==
  LET present(n) == n \in Range(features)
  IN  SelectSeq(CollationOrder, present)

\* C11: once the boundary collection is stored, the name list holds every
\* non-empty NAME of the collection exactly once (names that differ in case
\* are different names), in the order of a locale-aware comparison: the
\* names B, a, C give a, B, C; while the collection is absent the list is
\* empty, and so it is for a collection without features.
C11_NameListSortedUnique ==
  /\ boundaryFetch = "ok" => conservancyList = ExpectedList(geojson)
  /\ boundaryFetch = "ok" /\ geojson = << <<"B">>, <<"a">>, <<"C">> >>
       => conservancyList = << <<"a">>, <<"B">>, <<"C">> >>
  /\ conservancyData.isNull => conservancyList = <<>>
  /\ boundaryFetch = "ok" /\ geojson = <<>> => conservancyList = <<>>

\* C11 witness: the collection with the names B, a, C is stored and the list
\* reads a, B, C.
C11_Witness ==
  /\ boundaryFetch = "ok"
  /\ geojson = << <<"B">>, <<"a">>, <<"C">> >>
  /\ conservancyList = << <<"a">>, <<"B">>, <<"C">> >>

\* C12: the one boundary fetch, issued at construction, is never issued
\* again once it has ended; if it fails the collection stays absent, the name
\* list stays empty and no layer is ever registered or highlighted.
C12_OneBoundaryFetch ==
  [][ /\ boundaryFetch # "pending" => boundaryFetch' = boundaryFetch
      /\ lastOp'.op = "boundaryFailed" => boundaryFetch' = "failed"
      /\ boundaryFetch' = "failed"
         => /\ conservancyData'.isNull
            /\ conservancyList' = <<>>
            /\ layerMapRef' = EmptyMap
            /\ Layers' = {}
            /\ Highlighted' = {}
            /\ selectedLayerRef' = 0
            /\ selectedConservancy' = <<>> ]_vars

\* C12 witness: the fetch of a collection with features has failed and the
\* map was created after it: there is no layer.
C12_Witness ==
  /\ boundaryFetch = "failed"
  /\ geojson # <<>>
  /\ lastOp.op = "mapCreated"
  /\ Layers = {}

AllNamed(features) == \A i \in DOMAIN features : features[i] # <<>>

\* C13 (as claimed): a click on the layer of a region leaves that very layer
\* highlighted and every other layer in the default style (stated for
\* collections whose features all carry a NAME, pairwise distinct, so the
\* name of the click tells the layer).
C13_ClickHighlightsClickedLayer ==
  ( /\ lastOp.op = "click"
    /\ AllNamed(conservancyData.features)
    /\ PairwiseDistinct(conservancyData.features) )
  => /\ Highlighted = LayersOfName(lastOp.arg)
     /\ Cardinality(Highlighted) = 1

\* The name resolves to the layer of the region that carries it
Registered(n) ==
  /\ lookupLayer(n) # 0
  /\ conservancyData.features[lookupLayer(n)] = n

\* C14: when a region whose name resolves to its layer is selected and the
\* map is ready, then, unless the selection changes, its layer is eventually
\* the highlighted one (also when the region was chosen in the dropdown
\* before the map was ready: the debounce timer set when the map became
\* ready highlights it).
C14_SelectedEventuallyHighlighted ==
  \A n \in NameChoices \ {<<>>} :
    (selectedConservancy = n /\ mapReady /\ Registered(n))
      ~> (selectedConservancy # n \/ Highlighted = {lookupLayer(n)})

\* C14 witness: the debounce timer of the selected region has just fired and
\* its layer is the highlighted one; the only invalidateSize timer pending
\* is the one this highlight set.
C14_Witness ==
  /\ lastOp.op = "debounce"
  /\ Registered(selectedConservancy)
  /\ Highlighted = {lookupLayer(selectedConservancy)}
  /\ sizeTimers = <<selectedConservancy>>

\* A step that clears the selection: the close button or the blank option
Clearing ==
  \/ lastOp'.op = "close"
  \/ lastOp' = [op |-> "dropdown", arg |-> <<>>]

C16_SettledPanelHoldsOneResult ==
  /\ (PanelOpen /\ lastOp.op \in {"click", "dropdown", "tab"}
        /\ BagIn([url |-> Shown], inflight) /\ loading
      => ~error /\ figure = NoFigure)
  /\ (PanelOpen /\ inflight = EmptyBag
      => ~loading /\ ((figure # NoFigure) # error))

\* C17: the back-reference and the selection agree. The back-reference is
\* set exactly when some layer carries the highlight style, and it is that
\* layer; a highlighted layer implies that a name is selected and resolves to
\* that layer; and the side panel holds chart state (a request, the loading
\* flag, a figure or the error flag) exactly when a name is selected.
C17_BackReferenceAgreesWithSelection ==
  /\ (selectedLayerRef # 0) <=> (Highlighted # {})
  /\ selectedLayerRef # 0 => Highlighted = {selectedLayerRef}
  /\ \A l \in Highlighted :
        /\ selectedConservancy # <<>>
        /\ lookupLayer(selectedConservancy) = l
  /\ (selectedConservancy # <<>>) <=> (loading \/ error \/ figure # NoFigure)
  /\ selectedConservancy = <<>> => inflight = EmptyBag

\* C17 witness: a region chosen in the dropdown is highlighted, referred to
\* by the back-reference, and its chart is shown in the open panel.
C17_Witness ==
  /\ lastOp.op = "chartOk"
  /\ selectedLayerRef # 0
  /\ Highlighted = {selectedLayerRef}
  /\ lookupLayer(selectedConservancy) = selectedLayerRef
  /\ PanelOpen
  /\ figure = Shown
  /\ ~loading /\ ~error

\* C18: a panel that opens from the closed state, also after a close and a
\* new selection, is on the first tab and fetches the first tab's chart; a
\* change from one region to another with the panel open keeps the active tab
\* and fetches that tab's chart of the new region.
C18_FirstTabOnOpenKeptOnSwitch ==
  [][ /\ (selectedConservancy = <<>> /\ selectedConservancy' # <<>>
          => /\ activeTabId' = TAB_CONFIG[1].id
             /\ BagIn(Request(selectedConservancy', TAB_CONFIG[1].id), inflight'))
      /\ (selectedConservancy # <<>> /\ selectedConservancy' # <<>>
            /\ selectedConservancy' # selectedConservancy
          => /\ activeTabId' = activeTabId
             /\ BagIn(Request(selectedConservancy', activeTabId), inflight')) ]_vars

\* C18 witness: with the panel on a later tab, another region has just been
\* chosen; the panel is still on that tab and loads the new region's chart
\* while the request of the previous region is still in flight.
C18_Witness ==
  /\ lastOp.op \in {"click", "dropdown"}
  /\ activeTabId # TAB_CONFIG[1].id
  /\ loading
  /\ BagIn([url |-> Shown], inflight)
  /\ \E t \in TabIds : \E n \in NameChoices \ {<<>>, selectedConservancy} :
        BagIn(Request(n, t), inflight)

====
